---------------------------- MODULE Spec2Model ----------------------------
(***************************************************************************)
(* A model of the Pokemon battle engine                                    *)
(* (src/pokemon_mcp/battle_system/pokemon_battle_system.py) and of the     *)
(* lookup it consumes (src/pokemon_mcp/data_system/pokemon_query_system.py)*)
(*                                                                         *)
(* Numbers.  The code computes in binary floating point.  The model keeps  *)
(* every quantity as an exact fraction over a fixed denominator:           *)
(*   - a type multiplier is held in quarters (One = 4 stands for 1.0), so  *)
(*     a table entry 0, 0.5, 2 is 0, 2, 8 and the product over at most two *)
(*     defender types is exact;                                            *)
(*   - STAB is held in halves (3 for 1.5, 2 for 1.0);                      *)
(*   - random.uniform(0.85, 1.0) is held in hundredths (85..100).          *)
(* int(x) of the code truncates toward zero; Trunc does the same on the    *)
(* exact fraction.                                                         *)
(***************************************************************************)
EXTENDS Integers, Sequences, FiniteSets, TLC

VARIABLES
    type_effectiveness, \* self.type_effectiveness: the chart built by __init__
    pc,                 \* position inside simulate_battle
    pokemon1,           \* first-named combatant record (or NoPokemon)
    pokemon2,           \* second-named combatant record (or NoPokemon)
    first_pokemon,      \* 1 or 2: which record first_pokemon refers to
    current_turn,       \* the loop counter of simulate_battle
    num_turns,          \* the num_turns argument of simulate_battle
    battle_log,         \* the list of turn results of simulate_battle
    result,             \* what simulate_battle returned (or NoResult)
    attacker_data,      \* snapshot handed to a direct simulate_battle_turn call
    defender_data,      \* snapshot handed to a direct simulate_battle_turn call
    turn_result,        \* what the direct simulate_battle_turn call returned
    calc_args,          \* arguments of a direct calculate_damage call
    calc_result,        \* what the direct calculate_damage call returned
    eff_args,           \* arguments of a direct calculate_type_effectiveness call
    eff_result,         \* what the direct calculate_type_effectiveness call returned
    heap,               \* the combatant dicts of concurrent simulate_battle calls
    battles             \* the locals of each concurrent simulate_battle call

vars == <<type_effectiveness, pc, pokemon1, pokemon2, first_pokemon,
          current_turn, num_turns, battle_log, result,
          attacker_data, defender_data, turn_result, calc_args, calc_result,
          eff_args, eff_result, heap, battles>>

battle_vars == <<pc, pokemon1, pokemon2, first_pokemon, current_turn,
                 num_turns, battle_log, result>>
turn_vars == <<attacker_data, defender_data, turn_result>>
calc_vars == <<calc_args, calc_result, eff_args, eff_result>>
thread_vars == <<heap, battles>>

-----------------------------------------------------------------------------
(* Fixed-point units *)

\* multiplier = 1.0, in quarters
One == 4

\* a chart entry: 0, 0.5 and 2, in quarters
Zero == 0 * One
Half == One \div 2
Double == 2 * One

-----------------------------------------------------------------------------
(* The type chart *)

\* the chart literal of _load_type_effectiveness
load_type_effectiveness ==
    ( "Normal" :> ("Rock" :> Half @@ "Ghost" :> Zero @@ "Steel" :> Half) )
 @@ ( "Fire" :> ("Fire" :> Half @@ "Water" :> Half @@ "Grass" :> Double
              @@ "Ice" :> Double @@ "Bug" :> Double @@ "Rock" :> Half
              @@ "Dragon" :> Half @@ "Steel" :> Double) )
 @@ ( "Water" :> ("Fire" :> Double @@ "Water" :> Half @@ "Grass" :> Half
              @@ "Ground" :> Double @@ "Rock" :> Double @@ "Dragon" :> Half) )
 @@ ( "Electric" :> ("Water" :> Double @@ "Electric" :> Half @@ "Grass" :> Half
              @@ "Ground" :> Zero @@ "Flying" :> Double @@ "Dragon" :> Half) )
 @@ ( "Grass" :> ("Fire" :> Half @@ "Water" :> Double @@ "Grass" :> Half
              @@ "Poison" :> Half @@ "Ground" :> Double @@ "Flying" :> Half
              @@ "Bug" :> Half @@ "Rock" :> Double @@ "Dragon" :> Half
              @@ "Steel" :> Half) )
 @@ ( "Ice" :> ("Fire" :> Half @@ "Water" :> Half @@ "Grass" :> Double
              @@ "Ice" :> Half @@ "Ground" :> Double @@ "Flying" :> Double
              @@ "Dragon" :> Double @@ "Steel" :> Half) )
 @@ ( "Fighting" :> ("Normal" :> Double @@ "Ice" :> Double @@ "Poison" :> Half
              @@ "Flying" :> Half @@ "Psychic" :> Half @@ "Bug" :> Half
              @@ "Rock" :> Double @@ "Ghost" :> Zero @@ "Dark" :> Double
              @@ "Steel" :> Double @@ "Fairy" :> Half) )
 @@ ( "Poison" :> ("Grass" :> Double @@ "Poison" :> Half @@ "Ground" :> Half
              @@ "Rock" :> Half @@ "Ghost" :> Half @@ "Steel" :> Zero
              @@ "Fairy" :> Double) )
 @@ ( "Ground" :> ("Fire" :> Double @@ "Electric" :> Double @@ "Grass" :> Half
              @@ "Poison" :> Double @@ "Flying" :> Zero @@ "Bug" :> Half
              @@ "Rock" :> Double @@ "Steel" :> Double) )
 @@ ( "Flying" :> ("Electric" :> Half @@ "Grass" :> Double @@ "Fighting" :> Double
              @@ "Bug" :> Double @@ "Rock" :> Half @@ "Steel" :> Half) )
 @@ ( "Psychic" :> ("Fighting" :> Double @@ "Poison" :> Double
              @@ "Psychic" :> Half @@ "Dark" :> Zero @@ "Steel" :> Half) )
 @@ ( "Bug" :> ("Fire" :> Half @@ "Grass" :> Double @@ "Fighting" :> Half
              @@ "Poison" :> Half @@ "Flying" :> Half @@ "Psychic" :> Double
              @@ "Ghost" :> Half @@ "Dark" :> Double @@ "Steel" :> Half
              @@ "Fairy" :> Half) )
 @@ ( "Rock" :> ("Fire" :> Double @@ "Ice" :> Double @@ "Fighting" :> Half
              @@ "Ground" :> Half @@ "Flying" :> Double @@ "Bug" :> Double
              @@ "Steel" :> Half) )
 @@ ( "Ghost" :> ("Normal" :> Zero @@ "Psychic" :> Double @@ "Ghost" :> Double
              @@ "Dark" :> Half) )
 @@ ( "Dragon" :> ("Dragon" :> Double @@ "Steel" :> Half @@ "Fairy" :> Zero) )
 @@ ( "Dark" :> ("Fighting" :> Half @@ "Psychic" :> Double @@ "Ghost" :> Double
              @@ "Dark" :> Half @@ "Fairy" :> Half) )
 @@ ( "Steel" :> ("Fire" :> Half @@ "Water" :> Half @@ "Electric" :> Half
              @@ "Ice" :> Double @@ "Rock" :> Double @@ "Steel" :> Half
              @@ "Fairy" :> Double) )
 @@ ( "Fairy" :> ("Fire" :> Half @@ "Fighting" :> Double @@ "Poison" :> Half
              @@ "Dragon" :> Double @@ "Dark" :> Double @@ "Steel" :> Half) )

\* str.capitalize() on the type names the model uses: first letter upper,
\* the rest lower.  Canonical names are fixed points.
capitalize(s) ==
    CASE s = "ground" -> "Ground"
      [] s = "ghost" -> "Ghost"
      [] s = "GHOST" -> "Ghost"
      [] OTHER -> s

\* one iteration of the loop of calculate_type_effectiveness
type_step(chart, multiplier, move_type, def_type0) ==
    LET def_type == capitalize(def_type0) IN
    IF move_type \in DOMAIN chart /\ def_type \in DOMAIN chart[move_type]
    THEN (multiplier * chart[move_type][def_type]) \div One
    ELSE multiplier

\* a slip: the loop is left after the first defender type
type_loop_first_only(chart, multiplier, move_type, defender_types) ==
    IF defender_types = <<>> THEN multiplier
    ELSE type_step(chart, multiplier, move_type, Head(defender_types))

\* for def_type in defender_types: ...
RECURSIVE type_loop(_, _, _, _)
type_loop(chart, multiplier, move_type, defender_types) ==
    IF defender_types = <<>> THEN multiplier
    ELSE type_loop(chart,
                   type_step(chart, multiplier, move_type, Head(defender_types)),
                   move_type, Tail(defender_types))

\* a slip: a pair the chart does not list is stored with its default, as
\* dict.setdefault would
chart_after_lookup_defaulting(chart, move_type, defender_types) ==
    IF move_type \notin DOMAIN chart THEN chart
    ELSE LET row == chart[move_type]
             asked == { defender_types[i] : i \in 1..Len(defender_types) }
         IN [chart EXCEPT ![move_type] =
                [t \in DOMAIN row \cup asked |->
                    IF t \in DOMAIN row THEN row[t] ELSE One]]

\* self.type_effectiveness after calculate_type_effectiveness has run: the
\* function tests membership and reads entries, it assigns nothing
chart_after_lookup(chart, move_type, defender_types) == chart

\* calculate_type_effectiveness(move_type, defender_types), in quarters
calculate_type_effectiveness(chart, move_type, defender_types) ==
    type_loop(chart, One, capitalize(move_type), defender_types)

-----------------------------------------------------------------------------
(* calculate_damage *)

\* dict.get(key, default)
get(d, key, default) == IF key \in DOMAIN d THEN d[key] ELSE default

\* x in list
in_list(x, list) == \E i \in 1..Len(list) : list[i] = x

\* int(n / d) for d # 0: truncation toward zero
Trunc(n, d) ==
    LET an == IF n < 0 THEN -n ELSE n
        ad == IF d < 0 THEN -d ELSE d
        q == an \div ad
    IN IF (n < 0) # (d < 0) THEN -q ELSE q

max(a, b) == IF a >= b THEN a ELSE b

\* level = 50
level == 50

\* stab = 1.5 if move_type in attacker_types else 1.0, in halves
stab_of(move_type, attacker_types) ==
    IF in_list(move_type, attacker_types) THEN 3 ELSE 2

\* int(base_damage * modifier) with
\*   base_damage = ((2*level/5 + 2) * move_power * attack_stat / defense_stat) / 50 + 2
\*   modifier    = stab * type_effectiveness * random.uniform(0.85, 1.0)
\* as one exact fraction: stab in halves, eff in quarters, rnd in hundredths;
\* final_damage = max(1, int(base_damage * modifier)).
raw_damage_of(move_power, attack_stat, defense_stat, stab, eff, rnd) ==
    LET coef == (2 * level) \div 5 + 2
        num == (coef * move_power * attack_stat + 2 * 50 * defense_stat)
                   * stab * eff * rnd
        den == 50 * defense_stat * 2 * One * 100
    IN Trunc(num, den)

\* a slip: the max(1, ...) is left out
final_damage_unfloored(move_power, attack_stat, defense_stat, stab, eff, rnd) ==
    raw_damage_of(move_power, attack_stat, defense_stat, stab, eff, rnd)

final_damage_of(move_power, attack_stat, defense_stat, stab, eff, rnd) ==
    max(1, raw_damage_of(move_power, attack_stat, defense_stat, stab, eff, rnd))

\* the if / elif chain that picks the message and zeroes the damage.
\* The third test is only reached when the first two fail.
effectiveness_of(eff, final_damage) ==
    IF 2 * eff > 3 * One
    THEN [final_damage |-> final_damage, effectiveness_msg |-> "It's super effective!"]
    ELSE IF 2 * eff < One
    THEN [final_damage |-> final_damage, effectiveness_msg |-> "It's not very effective..."]
    ELSE IF eff = 0
    THEN [final_damage |-> 0, effectiveness_msg |-> "It has no effect..."]
    ELSE [final_damage |-> final_damage, effectiveness_msg |-> ""]

\* calculate_damage(attacker, defender, move) with the random draw rnd.
\* raised is TRUE when the division by defense_stat raises ZeroDivisionError.
calculate_damage(chart, attacker, defender, move, rnd) ==
    LET move_power == get(move, "power", 50)
        move_type == get(move, "type", "Normal")
        move_category == get(move, "category", "Physical")
        attacker_types == get(attacker, "types", <<"Normal">>)
        defender_types == get(defender, "types", <<"Normal">>)
        stab == stab_of(move_type, attacker_types)
        eff == calculate_type_effectiveness(chart, move_type, defender_types)
        attack_stat == IF move_category = "Physical"
                       THEN attacker.stats.attack ELSE attacker.stats.sp_attack
        defense_stat == IF move_category = "Physical"
                        THEN defender.stats.defense ELSE defender.stats.sp_defense
    IN IF defense_stat = 0
       THEN [raised |-> TRUE, final_damage |-> 0, effectiveness_msg |-> ""]
       ELSE LET r == effectiveness_of(eff,
                       final_damage_of(move_power, attack_stat, defense_stat,
                                       stab, eff, rnd))
            IN [raised |-> FALSE, final_damage |-> r.final_damage,
                effectiveness_msg |-> r.effectiveness_msg]

-----------------------------------------------------------------------------
(* simulate_battle_turn *)

\* str.lower() on the move names the model uses
lower(s) ==
    CASE s = "Tackle" -> "tackle"
      [] s = "TACKLE" -> "tackle"
      [] s = "Ember" -> "ember"
      [] s = "Water Gun" -> "water gun"
      [] s = "Thundershock" -> "thundershock"
      [] s = "Surf" -> "surf"
      [] OTHER -> s

\* the move object simulate_battle_turn builds for move_name
move_of(move_name) ==
    CASE lower(move_name) = "tackle" ->
           [name |-> "Tackle", type |-> "Normal", power |-> 40,
            category |-> "Physical", accuracy |-> 100, pp |-> 35]
      [] lower(move_name) = "ember" ->
           [name |-> "Ember", type |-> "Fire", power |-> 40,
            category |-> "Special", accuracy |-> 100, pp |-> 25]
      [] lower(move_name) = "water gun" ->
           [name |-> "Water Gun", type |-> "Water", power |-> 40,
            category |-> "Special", accuracy |-> 100, pp |-> 25]
      [] lower(move_name) = "thundershock" ->
           [name |-> "Thundershock", type |-> "Electric", power |-> 40,
            category |-> "Special", accuracy |-> 100, pp |-> 30]
      [] OTHER ->
           [name |-> move_name, type |-> "Normal", power |-> 50,
            category |-> "Physical", accuracy |-> 100, pp |-> 20]

\* The rendered log line, kept as the sequence of its clauses.
used_clause(attacker_name, move_name) ==
    [part |-> "used", who |-> attacker_name, what |-> move_name, amount |-> 0]
effectiveness_clause(msg) ==
    [part |-> "effectiveness", who |-> "", what |-> msg, amount |-> 0]
dealt_clause(damage) ==
    [part |-> "dealt", who |-> "", what |-> "", amount |-> damage]
fainted_clause(defender_name) ==
    [part |-> "fainted", who |-> defender_name, what |-> "", amount |-> 0]

\* a slip: the test "if effectiveness_msg" is left out
log_line_untested_msg(attacker_name, defender_name, move_name, damage, effectiveness_msg, fainted) ==
    <<used_clause(attacker_name, move_name)>>
    \o (IF damage > 0
        THEN <<effectiveness_clause(effectiveness_msg), dealt_clause(damage)>>
        ELSE <<effectiveness_clause(effectiveness_msg)>>)
    \o (IF fainted THEN <<fainted_clause(defender_name)>> ELSE <<>>)

\* battle_log = f"{attacker} used {move}!" and the appends that follow it
log_line(attacker_name, defender_name, move_name, damage, effectiveness_msg, fainted) ==
    <<used_clause(attacker_name, move_name)>>
    \o (IF damage > 0
        THEN (IF effectiveness_msg # ""
              THEN <<effectiveness_clause(effectiveness_msg)>> ELSE <<>>)
             \o <<dealt_clause(damage)>>
        ELSE <<effectiveness_clause(effectiveness_msg)>>)
    \o (IF fainted THEN <<fainted_clause(defender_name)>> ELSE <<>>)

\* a slip: the max(0, ...) is left out
apply_damage_unclamped(defender, damage) ==
    LET hp0 == get(defender, "current_hp", defender.stats.hp)
    IN IF "current_hp" \in DOMAIN defender
       THEN [defender EXCEPT !.current_hp = hp0 - damage]
       ELSE defender @@ [current_hp |-> hp0 - damage]

\* defender_data["current_hp"] = max(0, current_hp - damage), current_hp
\* defaulting to stats.hp when the snapshot has none
apply_damage(defender, damage) ==
    LET hp0 == get(defender, "current_hp", defender.stats.hp)
        hp1 == max(0, hp0 - damage)
    IN IF "current_hp" \in DOMAIN defender
       THEN [defender EXCEPT !.current_hp = hp1]
       ELSE defender @@ [current_hp |-> hp1]

\* simulate_battle_turn(attacker_data, defender_data, move_name) with the
\* random draw rnd: the mutated defender and the returned dict.  When
\* calculate_damage raises, nothing has been written yet.
simulate_battle_turn(chart, attacker, defender, move_name, rnd) ==
    LET move == move_of(move_name)
        dmg == calculate_damage(chart, attacker, defender, move, rnd)
        damage == dmg.final_damage
        defender2 == apply_damage(defender, damage)
        fainted == defender2.current_hp <= 0
    IN IF dmg.raised
       THEN [raised |-> TRUE, defender |-> defender, ret |-> <<>>]
       ELSE [raised |-> FALSE,
             defender |-> defender2,
             ret |-> [attacker |-> attacker.name,
                      defender |-> defender.name,
                      move_used |-> move.name,
                      damage_dealt |-> damage,
                      effectiveness_message |-> dmg.effectiveness_msg,
                      defender_hp_remaining |-> defender2.current_hp,
                      defender_fainted |-> fainted,
                      battle_log |-> log_line(attacker.name, defender.name,
                                              move.name, damage,
                                              dmg.effectiveness_msg, fainted)]]

-----------------------------------------------------------------------------
(* The data provider: PokemonDataSystem.get_pokemon_info *)

\* The rows of pokemon_df the model loads (Name, ID, Type1, Type2, the six
\* stats, Generation), in file order.  Type2 = " " is a blank second type.
pokemon_df ==
    << [Name |-> "Sandshrew", ID |-> 27, Type1 |-> "Ground", Type2 |-> " ",
        HP |-> 50, Attack |-> 75, Defense |-> 85, SpAtk |-> 20, SpDef |-> 30,
        Speed |-> 40, Generation |-> 1],
       [Name |-> "Pikachu", ID |-> 25, Type1 |-> "Electric", Type2 |-> " ",
        HP |-> 35, Attack |-> 55, Defense |-> 40, SpAtk |-> 50, SpDef |-> 50,
        Speed |-> 90, Generation |-> 1],
       [Name |-> "Gastly", ID |-> 92, Type1 |-> "Ghost", Type2 |-> "Poison",
        HP |-> 30, Attack |-> 35, Defense |-> 30, SpAtk |-> 100, SpDef |-> 35,
        Speed |-> 80, Generation |-> 1],
       [Name |-> "Squirtle", ID |-> 7, Type1 |-> "Water", Type2 |-> " ",
        HP |-> 44, Attack |-> 48, Defense |-> 65, SpAtk |-> 50, SpDef |-> 64,
        Speed |-> 43, Generation |-> 1],
       [Name |-> "Charmander", ID |-> 4, Type1 |-> "Fire", Type2 |-> " ",
        HP |-> 39, Attack |-> 52, Defense |-> 43, SpAtk |-> 60, SpDef |-> 50,
        Speed |-> 65, Generation |-> 1],
       [Name |-> "Chinchou", ID |-> 170, Type1 |-> "Water", Type2 |-> "Electric",
        HP |-> 75, Attack |-> 38, Defense |-> 38, SpAtk |-> 56, SpDef |-> 56,
        Speed |-> 67, Generation |-> 2],
       [Name |-> "Volcanion", ID |-> 721, Type1 |-> "Fire", Type2 |-> "Water",
        HP |-> 80, Attack |-> 110, Defense |-> 120, SpAtk |-> 130, SpDef |-> 90,
        Speed |-> 70, Generation |-> 6] >>

\* name[0].upper() + name[1:].lower() on the names the model asks for
normalize_name(name) ==
    CASE name = "pikachu" -> "Pikachu"
      [] name = "GASTLY" -> "Gastly"
      [] name = "squirt" -> "Squirt"
      [] OTHER -> name

\* Name.str.lower().str.contains(name.lower()) on the names the model asks
\* for: every Name contains the empty string, "Squirtle" contains "squirt"
name_contains(Name, name) ==
    \/ name = ""
    \/ Name = name
    \/ (Name = "Squirtle" /\ name = "Squirt")

\* the rows of pokemon_df the three matching passes select, in file order.
\* Every Name of the model is one capitalised word, so the case-insensitive
\* pass selects what the exact pass selects.
matching_rows(name) ==
    LET exact == SelectSeq(pokemon_df, LAMBDA row : row.Name = name)
        partial == SelectSeq(pokemon_df, LAMBDA row : name_contains(row.Name, name))
    IN IF Len(exact) > 0 THEN exact ELSE partial

\* get_pokemon_info(name): a fresh dict built from the first matching row,
\* or the error dict
get_pokemon_info(name0) ==
    LET name == normalize_name(name0)
        rows == matching_rows(name)
        pokemon == rows[1]
    IN IF Len(rows) = 0
       THEN [error |-> name]
       ELSE [name |-> pokemon.Name,
             id |-> pokemon.ID,
             types |-> SelectSeq(<<pokemon.Type1, pokemon.Type2>>,
                                 LAMBDA t : t # " "),
             stats |-> [hp |-> pokemon.HP, attack |-> pokemon.Attack,
                        defense |-> pokemon.Defense, sp_attack |-> pokemon.SpAtk,
                        sp_defense |-> pokemon.SpDef, speed |-> pokemon.Speed],
             generation |-> pokemon.Generation]

-----------------------------------------------------------------------------
(* initialize_pokemon_for_battle *)

\* a slip: the Water test is made before the Fire test
default_moves_water_first(types) ==
    <<"Tackle">>
    \o (IF in_list("Water", types) THEN <<"Water Gun">> ELSE <<>>)
    \o (IF in_list("Fire", types) THEN <<"Ember">> ELSE <<>>)
    \o (IF in_list("Electric", types) THEN <<"Thundershock">> ELSE <<>>)

\* moves = ["Tackle"], then one append per type test, in the code's order
default_moves(types) ==
    <<"Tackle">>
    \o (IF in_list("Fire", types) THEN <<"Ember">> ELSE <<>>)
    \o (IF in_list("Water", types) THEN <<"Water Gun">> ELSE <<>>)
    \o (IF in_list("Electric", types) THEN <<"Thundershock">> ELSE <<>>)

initialize_pokemon_for_battle(pokemon_name) ==
    LET pokemon_data == get_pokemon_info(pokemon_name)
    IN IF "error" \in DOMAIN pokemon_data
       THEN pokemon_data
       ELSE pokemon_data @@ [current_hp |-> pokemon_data.stats.hp,
                             moves |-> default_moves(pokemon_data.types)]

-----------------------------------------------------------------------------
(* Bounds and inputs *)

\* num_turns ranges over -1..MaxTurns
MaxTurns == 2

\* the names simulate_battle is asked for
Names == {"Sandshrew", "pikachu", "Gastly", "Squirt", "Missingno"}

\* the draws of random.uniform(0.85, 1.0) the model takes, in hundredths
Rnd == {85, 100}

NoPokemon == [none |-> TRUE]
NoResult == [none |-> TRUE]

-----------------------------------------------------------------------------
(* simulate_battle *)

\* the record first_pokemon / second_pokemon refers to
first == IF first_pokemon = 1 THEN pokemon1 ELSE pokemon2
second == IF first_pokemon = 1 THEN pokemon2 ELSE pokemon1

\* a slip: the turn limit is not tested at all
loop_condition_unlimited ==
    /\ pokemon1.current_hp > 0
    /\ pokemon2.current_hp > 0

\* a slip: the turn limit is tested one turn late
loop_condition_late ==
    /\ current_turn <= num_turns + 1
    /\ pokemon1.current_hp > 0
    /\ pokemon2.current_hp > 0

\* the while condition
loop_condition ==
    /\ current_turn <= num_turns
    /\ pokemon1.current_hp > 0
    /\ pokemon2.current_hp > 0

\* a slip: > for >=, so that a tie goes to the second-named
initiative_strict(p1, p2) == IF p1.stats.speed > p2.stats.speed THEN 1 ELSE 2

\* pokemon1["stats"]["speed"] >= pokemon2["stats"]["speed"]
initiative(p1, p2) == IF p1.stats.speed >= p2.stats.speed THEN 1 ELSE 2

\* a slip: the remaining HP is compared, not its share of the maximum
hp_percentage_raw(p) == p.current_hp

\* current_hp / stats.hp: the quotient to six decimal places (a double
\* carries more than fifteen)
hp_percentage(p) == (p.current_hp * 1000000) \div p.stats.hp

\* a slip: > for >= in the comparison of the shares, so that a tie goes to
\* the second-named
winner_of_tie_to_second(p1, p2) ==
    IF p1.current_hp <= 0 THEN p2.name
    ELSE IF p2.current_hp <= 0 THEN p1.name
    ELSE IF hp_percentage(p1) > hp_percentage(p2) THEN p1.name ELSE p2.name

\* a slip: the two names of the faint branches are exchanged
winner_of_swapped(p1, p2) ==
    IF p1.current_hp <= 0 THEN p1.name
    ELSE IF p2.current_hp <= 0 THEN p2.name
    ELSE IF hp_percentage(p1) >= hp_percentage(p2) THEN p1.name ELSE p2.name

\* the if / elif / else that names the winner
winner_of(p1, p2) ==
    IF p1.current_hp <= 0 THEN p2.name
    ELSE IF p2.current_hp <= 0 THEN p1.name
    ELSE IF hp_percentage(p1) >= hp_percentage(p2) THEN p1.name ELSE p2.name

\* a slip: the - 1 is left out
turns_simulated_uncorrected(turn) == turn

\* current_turn - 1
turns_simulated(turn) == turn - 1

\* the dict simulate_battle returns
battle_result(p1, p2, turn, log) ==
    [pokemon1 |-> [name |-> p1.name, starting_hp |-> p1.stats.hp,
                   ending_hp |-> p1.current_hp],
     pokemon2 |-> [name |-> p2.name, starting_hp |-> p2.stats.hp,
                   ending_hp |-> p2.current_hp],
     num_turns_simulated |-> turns_simulated(turn),
     battle_log |-> log,
     winner |-> winner_of(p1, p2)]

\* a slip: the second lookup is tested before the first
error_result_second_first(p1, p2) ==
    IF "error" \in DOMAIN p2
    THEN [error |-> [side |-> "second", detail |-> p2.error]]
    ELSE [error |-> [side |-> "first", detail |-> p1.error]]

\* the two error returns: {"error": "Error with first Pokemon: ..."} when the
\* first lookup failed, else {"error": "Error with second Pokemon: ..."}
error_result(p1, p2) ==
    IF "error" \in DOMAIN p1
    THEN [error |-> [side |-> "first", detail |-> p1.error]]
    ELSE [error |-> [side |-> "second", detail |-> p2.error]]

\* the call: both combatants are initialised, a failed lookup returns the
\* error dict, otherwise the log, the turn counter and the initiative are set
simulate_battle_begin(pokemon1_name, pokemon2_name, n) ==
    LET p1 == initialize_pokemon_for_battle(pokemon1_name)
        p2 == initialize_pokemon_for_battle(pokemon2_name)
    IN /\ pc = "idle"
       /\ pokemon1' = p1
       /\ pokemon2' = p2
       /\ num_turns' = n
       /\ IF "error" \in DOMAIN p1 \/ "error" \in DOMAIN p2
          THEN /\ result' = error_result(p1, p2)
               /\ pc' = "done"
               /\ UNCHANGED <<battle_log, current_turn, first_pokemon>>
          ELSE /\ battle_log' = <<>>
               /\ current_turn' = 1
               /\ first_pokemon' = initiative(p1, p2)
               /\ pc' = "loop"
               /\ UNCHANGED result
       /\ UNCHANGED <<type_effectiveness, turn_vars, calc_vars, thread_vars>>

\* the defender record is written back through the reference it came from
write_second(d) ==
    IF first_pokemon = 1
    THEN pokemon2' = d /\ UNCHANGED pokemon1
    ELSE pokemon1' = d /\ UNCHANGED pokemon2

write_first(d) ==
    IF first_pokemon = 1
    THEN pokemon1' = d /\ UNCHANGED pokemon2
    ELSE pokemon2' = d /\ UNCHANGED pokemon1

\* a slip: the faint check after the first move is left out
after_first_move_unchecked(defender) == "second"

\* if second_pokemon["current_hp"] <= 0: break
after_first_move(defender) ==
    IF defender.current_hp <= 0 THEN "break" ELSE "second"

\* the loop test passed: the first Pokemon's move, then the faint check
simulate_battle_first_move(move_to_use, rnd) ==
    /\ pc = "loop"
    /\ loop_condition
    /\ in_list(move_to_use, first.moves)
    /\ type_effectiveness' = chart_after_lookup(type_effectiveness,
                                  move_of(move_to_use).type, second.types)
    /\ \E t \in {simulate_battle_turn(type_effectiveness, first, second,
                                       move_to_use, rnd)} :
          IF t.raised
          THEN pc' = "raised" /\ UNCHANGED <<pokemon1, pokemon2, battle_log>>
          ELSE /\ write_second(t.defender)
               /\ battle_log' = Append(battle_log, t.ret)
               /\ pc' = after_first_move(t.defender)
    /\ UNCHANGED <<first_pokemon, current_turn, num_turns,
                      result, turn_vars, calc_vars, thread_vars>>

\* the second Pokemon's move, then current_turn += 1
simulate_battle_second_move(move_to_use, rnd) ==
    /\ pc = "second"
    /\ in_list(move_to_use, second.moves)
    /\ type_effectiveness' = chart_after_lookup(type_effectiveness,
                                  move_of(move_to_use).type, first.types)
    /\ \E t \in {simulate_battle_turn(type_effectiveness, second, first,
                                       move_to_use, rnd)} :
          IF t.raised
          THEN pc' = "raised" /\ UNCHANGED <<pokemon1, pokemon2, battle_log, current_turn>>
          ELSE /\ write_first(t.defender)
               /\ battle_log' = Append(battle_log, t.ret)
               /\ current_turn' = current_turn + 1
               /\ pc' = "loop"
    /\ UNCHANGED <<first_pokemon, num_turns, result, turn_vars, calc_vars, thread_vars>>

\* the loop is left (its test failed, or the break): the outcome is returned
simulate_battle_return ==
    /\ \/ pc = "loop" /\ ~loop_condition
       \/ pc = "break"
    /\ result' = battle_result(pokemon1, pokemon2, current_turn, battle_log)
    /\ pc' = "done"
    /\ UNCHANGED <<type_effectiveness, pokemon1, pokemon2, first_pokemon,
                   current_turn, num_turns, battle_log, turn_vars, calc_vars, thread_vars>>

InitEngine == type_effectiveness = load_type_effectiveness

InitBattle ==
    /\ pc = "idle"
    /\ pokemon1 = NoPokemon
    /\ pokemon2 = NoPokemon
    /\ first_pokemon = 1
    /\ current_turn = 0
    /\ num_turns = 0
    /\ battle_log = <<>>
    /\ result = NoResult

InitTurn ==
    /\ attacker_data = NoPokemon
    /\ defender_data = NoPokemon
    /\ turn_result = NoResult

InitCalc ==
    /\ calc_args = NoResult
    /\ calc_result = NoResult
    /\ eff_args = NoResult
    /\ eff_result = NoResult

\* the request threads of the server
Threads == {1, 2}

\* the locals of a simulate_battle call that has not started; pokemon1 and
\* pokemon2 are references into heap
idle_call ==
    [pc |-> "idle", pokemon1 |-> 0, pokemon2 |-> 0, first_pokemon |-> 1,
     current_turn |-> 0, num_turns |-> 0, battle_log |-> <<>>,
     result |-> NoResult, names |-> <<>>, draws |-> <<>>]

InitThreads ==
    /\ heap = <<>>
    /\ battles = [b \in Threads |-> idle_call]

Init == InitEngine /\ InitBattle /\ InitTurn /\ InitCalc /\ InitThreads

Next ==
    \/ \E n1 \in Names, n2 \in Names, n \in -1..MaxTurns :
           simulate_battle_begin(n1, n2, n)
    \/ \E m \in {"Tackle", "Thundershock", "Water Gun"}, r \in Rnd :
           simulate_battle_first_move(m, r)
    \/ \E m \in {"Tackle", "Thundershock", "Water Gun"}, r \in Rnd :
           simulate_battle_second_move(m, r)
    \/ simulate_battle_return

Spec == Init /\ [][Next]_vars

\* simulate_battle runs to completion once called: no statement of it waits
\* on anything, so a step that is possible is eventually taken
FairSpec == Spec /\ WF_vars(Next)

-----------------------------------------------------------------------------
(* Direct calls of calculate_damage *)

stats_of(hp, attack, defense, sp_attack, sp_defense, speed) ==
    [hp |-> hp, attack |-> attack, defense |-> defense,
     sp_attack |-> sp_attack, sp_defense |-> sp_defense, speed |-> speed]

\* the attackers, defenders and moves a direct call is given
CalcAttackers ==
    { [name |-> "A", types |-> ty, stats |-> st] :
        ty \in { <<"Normal">>, <<"Fire", "Flying">>, <<"Electric">> },
        st \in { stats_of(50, 10, 50, 100, 50, 50),
                 stats_of(50, 100, 50, 10, 50, 50) } }

CalcDefenders ==
    { [name |-> "D", types |-> ty, stats |-> st] :
        ty \in { <<"Normal">>, <<"Ghost">>, <<"ghost">>, <<"Ground">>,
                 <<"Ground", "Flying">>, <<"Water", "Dragon">>,
                 <<"Grass", "Bug">>, <<"Water">> },
        st \in { stats_of(50, 50, 10, 50, 100, 50),
                 stats_of(50, 50, 100, 50, 10, 50),
                 stats_of(50, 50, 0, 50, 0, 50) } }

CalcMoves ==
    { [name |-> "M", type |-> ty, power |-> pw, category |-> cat] :
        ty \in { "Normal", "Fire", "Electric" },
        pw \in { 1, 40, 120 },
        cat \in { "Physical", "Special" } }
    \cup { [name |-> "Struggle"] }

CalcRnd == {85, 93, 100}

\* the attacking types and the defender type lists a direct lookup is given:
\* canonical names, one attacking type with no row in the chart ("Shadow"),
\* one defending type no row lists ("Bird"), lists of zero, one and two types
EffMoveTypes == {"Normal", "Fire", "Electric", "Ground", "Fighting", "Shadow"}

EffDefenderTypeNames ==
    {"Normal", "Ghost", "Ground", "Flying", "Water", "Grass", "Rock", "Steel", "Bird"}

EffDefenderTypes ==
    {<<>>} \cup { <<t>> : t \in EffDefenderTypeNames }
           \cup { <<t, u>> : t \in EffDefenderTypeNames, u \in EffDefenderTypeNames }

\* one call per behaviour: the function keeps nothing between calls
calculate_damage_call(attacker, defender, move, rnd) ==
    /\ calc_args = NoResult
    /\ eff_args = NoResult
    /\ calc_args' = [attacker |-> attacker, defender |-> defender,
                     move |-> move, rnd |-> rnd]
    /\ calc_result' = calculate_damage(type_effectiveness, attacker, defender,
                                       move, rnd)
    /\ type_effectiveness' = chart_after_lookup(type_effectiveness,
                                  get(move, "type", "Normal"),
                                  get(defender, "types", <<"Normal">>))
    /\ UNCHANGED <<battle_vars, turn_vars, eff_args, eff_result, thread_vars>>

\* one direct lookup per behaviour
calculate_type_effectiveness_call(move_type, defender_types) ==
    /\ calc_args = NoResult
    /\ eff_args = NoResult
    /\ eff_args' = [move_type |-> move_type, defender_types |-> defender_types]
    /\ eff_result' = calculate_type_effectiveness(type_effectiveness, move_type,
                                                  defender_types)
    /\ type_effectiveness' = chart_after_lookup(type_effectiveness, move_type,
                                                defender_types)
    /\ UNCHANGED <<battle_vars, turn_vars, calc_args, calc_result, thread_vars>>

NextCalc ==
    /\ calc_args = NoResult
    /\ eff_args = NoResult
    /\ \/ \E a \in CalcAttackers, d \in CalcDefenders, m \in CalcMoves, r \in CalcRnd :
             calculate_damage_call(a, d, m, r)
       \/ \E mt \in EffMoveTypes, dt \in EffDefenderTypes :
             calculate_type_effectiveness_call(mt, dt)

SpecCalc == Init /\ [][NextCalc]_vars

-----------------------------------------------------------------------------
(* Direct calls of simulate_battle_turn *)

\* the snapshots a direct call is given: initialised combatants, one
\* without current_hp, one whose defense stats are 0 and one whose defense
\* stats are negative (the endpoint takes the dicts as the request sends them)
Snapshots ==
    { initialize_pokemon_for_battle(n) : n \in {"Sandshrew", "pikachu", "Gastly"} }
    \cup { [name |-> "Diglett", types |-> <<"Ground">>,
            stats |-> stats_of(10, 55, 25, 35, 45, 95)],
           [name |-> "Glass", types |-> <<"Normal">>,
            stats |-> stats_of(20, 30, 0, 30, 0, 30), current_hp |-> 20],
           [name |-> "Hollow", types |-> <<"Normal">>,
            stats |-> stats_of(20, 30, -10, 30, -10, 30), current_hp |-> 20] }

TurnMoves == {"Tackle", "TACKLE", "Thundershock", "Ember", "Surf"}

\* the caller picks the two snapshots
simulate_turn_pick(attacker, defender) ==
    /\ attacker_data = NoPokemon
    /\ attacker_data' = attacker
    /\ defender_data' = defender
    /\ UNCHANGED <<type_effectiveness, battle_vars, turn_result, calc_vars, thread_vars>>

\* one call; the defender snapshot is mutated in place.  An exception
\* leaves the handler before anything is written and the caller gets the
\* error response.
simulate_turn_call(move_name, rnd) ==
    LET t == simulate_battle_turn(type_effectiveness, attacker_data,
                                  defender_data, move_name, rnd)
    IN /\ attacker_data # NoPokemon
       /\ defender_data' = t.defender
       /\ turn_result' = IF t.raised THEN [error |-> "ZeroDivisionError"]
                                     ELSE t.ret
       /\ type_effectiveness' = chart_after_lookup(type_effectiveness,
                                     move_of(move_name).type,
                                     get(defender_data, "types", <<"Normal">>))
       /\ UNCHANGED <<battle_vars, attacker_data, calc_vars, thread_vars>>

\* the names the initialize endpoint is asked for
InitNames == {"Charmander", "Chinchou", "Volcanion", "Squirt"}

\* the caller gets its two snapshots from the initialize endpoint
initialize_pokemon(attacker_name, defender_name) ==
    LET a == initialize_pokemon_for_battle(attacker_name)
        d == initialize_pokemon_for_battle(defender_name)
    IN /\ attacker_data = NoPokemon
       /\ "error" \notin DOMAIN a
       /\ "error" \notin DOMAIN d
       /\ attacker_data' = a
       /\ defender_data' = d
       /\ UNCHANGED <<type_effectiveness, battle_vars, turn_result, calc_vars, thread_vars>>

NextTurn ==
    \/ \E a \in Snapshots, d \in Snapshots : simulate_turn_pick(a, d)
    \/ \E a \in InitNames, d \in InitNames : initialize_pokemon(a, d)
    \/ \E m \in TurnMoves, r \in Rnd : simulate_turn_call(m, r)

SpecTurn == Init /\ [][NextTurn]_vars

-----------------------------------------------------------------------------
(* Claims about calculate_damage, checked under SpecCalc *)

calc_called == calc_args # NoResult

\* the combined effectiveness of the call's move against its defender
calc_eff ==
    calculate_type_effectiveness(type_effectiveness,
                                 get(calc_args.move, "type", "Normal"),
                                 get(calc_args.defender, "types", <<"Normal">>))

\* the defense stat the call selects
calc_defense_stat ==
    IF get(calc_args.move, "category", "Physical") = "Physical"
    THEN calc_args.defender.stats.defense
    ELSE calc_args.defender.stats.sp_defense

calc_attack_stat ==
    IF get(calc_args.move, "category", "Physical") = "Physical"
    THEN calc_args.attacker.stats.attack
    ELSE calc_args.attacker.stats.sp_attack

\* C1: whenever the combined effectiveness of the move against the defender
\* is 0, calculate_damage returns damage 0 and the tag "It has no effect...",
\* whatever the power, the stats, STAB and the random factor are.
C1_NoEffectIsZeroDamage ==
    (calc_called /\ ~calc_result.raised /\ calc_eff = 0)
        => /\ calc_result.final_damage = 0
           /\ calc_result.effectiveness_msg = "It has no effect..."

\* C10: whenever the combined effectiveness is greater than 0 and the stats
\* the call selects are positive, calculate_damage returns damage >= 1.
C10_DamageAtLeastOne ==
    (calc_called /\ calc_eff > 0 /\ calc_defense_stat > 0 /\ calc_attack_stat > 0)
        => /\ ~calc_result.raised
           /\ calc_result.final_damage >= 1

\* C10 witness: a call with effectiveness 0.25 whose product truncates to 0,
\* so that the returned 1 is the floor's doing.
C10_FloorActs ==
    /\ calc_called
    /\ calc_eff = 1
    /\ calc_defense_stat > 0
    /\ raw_damage_of(get(calc_args.move, "power", 50), calc_attack_stat,
                     calc_defense_stat,
                     stab_of(get(calc_args.move, "type", "Normal"),
                             calc_args.attacker.types),
                     calc_eff, calc_args.rnd) = 0
    /\ calc_result.final_damage = 1

-----------------------------------------------------------------------------
(* Claims about simulate_battle, checked under Spec *)

\* simulate_battle returned a battle outcome (not the error dict)
battle_returned == pc = "done" /\ "winner" \in DOMAIN result

\* both combatants are resolved and the battle is running or over
in_battle == pc \in {"loop", "second", "break"} \/ battle_returned

last_entry == battle_log[Len(battle_log)]

\* the turn the i-th recorded move was applied in: two moves to a turn
turn_of(i) == (i + 1) \div 2

\* C2: when the battle ends on the first mover's attack fainting the second
\* mover, num_turns_simulated counts that turn too: it is the number of turns
\* in which at least one move was applied.
C2_CutShortTurnCounted ==
    (battle_returned /\ Len(battle_log) % 2 = 1 /\ last_entry.defender_fainted)
        => result.num_turns_simulated = turn_of(Len(battle_log))

\* C3: once either combatant's current_hp is 0, no move is applied any more
\* and no later turn starts.
C3_NoMoveAfterFaint ==
    [][ (in_battle /\ (pokemon1.current_hp <= 0 \/ pokemon2.current_hp <= 0))
            => (battle_log' = battle_log /\ current_turn' = current_turn
                /\ pokemon1' = pokemon1 /\ pokemon2' = pokemon2) ]_vars

\* C3 witness: the battle is over on the first mover's attack, which fainted
\* the second mover in the middle of a turn after the first turn.
C3_MidTurnFaint ==
    /\ battle_returned
    /\ Len(battle_log) % 2 = 1
    /\ Len(battle_log) >= 3
    /\ last_entry.defender_fainted
    /\ second.current_hp = 0
    /\ first.current_hp > 0

\* C4 as stated: num_turns_simulated <= N for every N, and no move is applied
\* in a turn numbered above N.
C4_TurnsAtMostN ==
    in_battle
        => /\ \A i \in 1..Len(battle_log) : turn_of(i) <= num_turns
           /\ battle_returned => result.num_turns_simulated <= num_turns

\* C4 amended: num_turns_simulated <= max(N, 0) (a negative N reports 0
\* turns), and no move is applied in a turn numbered above N.
C4_TurnsAtMostNOrZero ==
    in_battle
        => /\ \A i \in 1..Len(battle_log) : turn_of(i) <= num_turns
           /\ pc = "second" => current_turn <= num_turns
           /\ battle_returned => result.num_turns_simulated <= max(num_turns, 0)

\* C4 witness: the battle ran into the turn limit with both combatants alive
\* and reports exactly N > 0 turns.
C4_LimitReached ==
    /\ battle_returned
    /\ num_turns > 0
    /\ result.num_turns_simulated = num_turns
    /\ Len(battle_log) = 2 * num_turns
    /\ pokemon1.current_hp > 0
    /\ pokemon2.current_hp > 0

\* the combatant with the strictly higher speed, combatant1 on a tie
faster ==
    IF pokemon1.stats.speed > pokemon2.stats.speed THEN 1
    ELSE IF pokemon2.stats.speed > pokemon1.stats.speed THEN 2
    ELSE 1

\* C6: in every turn the first move is by the combatant with the strictly
\* higher speed (combatant1 on a tie) and the second move, if any, by the
\* other one, whatever the HP values have become.
C6_InitiativeFixed ==
    [][ (in_battle /\ battle_log' # battle_log)
            => LET k == Len(battle_log')
                   e == battle_log'[k]
                   att == IF k = 2 * current_turn - 1 THEN faster ELSE 3 - faster
               IN /\ k = Len(battle_log) + 1
                  /\ SubSeq(battle_log', 1, k - 1) = battle_log
                  /\ k \in {2 * current_turn - 1, 2 * current_turn}
                  /\ att = 1 => /\ pokemon1' = pokemon1
                                /\ pokemon2'.current_hp < pokemon2.current_hp
                                /\ e.attacker = pokemon1.name
                                /\ e.defender = pokemon2.name
                  /\ att = 2 => /\ pokemon2' = pokemon2
                                /\ pokemon1'.current_hp < pokemon1.current_hp
                                /\ e.attacker = pokemon2.name
                                /\ e.defender = pokemon1.name ]_vars

\* C6 witness: a battle whose two combatants have the same speed, over after
\* a second turn has begun, the first-named being the one hit less often.
C6_TieSecondTurn ==
    /\ battle_returned
    /\ pokemon1.stats.speed = pokemon2.stats.speed
    /\ Len(battle_log) = 3
    /\ pokemon2.current_hp < pokemon1.current_hp

\* C7: when the battle ends with exactly one combatant at current_hp <= 0,
\* the winner is the other combatant.
C7_WinnerIsSurvivor ==
    battle_returned
        => /\ (pokemon1.current_hp <= 0 /\ pokemon2.current_hp > 0)
                 => result.winner = pokemon2.name
           /\ (pokemon2.current_hp <= 0 /\ pokemon1.current_hp > 0)
                 => result.winner = pokemon1.name

\* C7 witness: the first-named combatant had the initiative and fainted; the
\* second-named, of another name, is the winner.
C7_FirstMoverFainted ==
    /\ battle_returned
    /\ first_pokemon = 1
    /\ pokemon1.current_hp <= 0
    /\ pokemon2.current_hp > 0
    /\ pokemon1.name # pokemon2.name
    /\ result.winner = pokemon2.name

\* C8: when the turn limit is reached with both combatants alive, the winner
\* is the one with the strictly higher current_hp / stats.hp compared as
\* exact fractions, and combatant1 when the two are equal.
C8_WinnerByHpRatio ==
    (battle_returned /\ pokemon1.current_hp > 0 /\ pokemon2.current_hp > 0)
        => result.winner =
             IF pokemon1.current_hp * pokemon2.stats.hp
                  >= pokemon2.current_hp * pokemon1.stats.hp
             THEN pokemon1.name ELSE pokemon2.name

\* C8 witness: both alive at the limit, the second-named has the higher
\* share of its HP left although the first-named has more HP left.
C8_RatioAgainstRawHp ==
    /\ battle_returned
    /\ Len(battle_log) = 2 * num_turns
    /\ num_turns > 0
    /\ pokemon1.current_hp > pokemon2.current_hp
    /\ pokemon2.current_hp > 0
    /\ pokemon1.current_hp * pokemon2.stats.hp < pokemon2.current_hp * pokemon1.stats.hp
    /\ result.winner = pokemon2.name
    /\ pokemon1.name # pokemon2.name

\* C9: during simulate_battle 0 <= current_hp <= stats.hp for both
\* combatants; every move application sets the defender's current_hp to
\* max(0, previous current_hp - damage) and reports defender_fainted exactly
\* when that is 0.
C9_HpClamped ==
    /\ [](in_battle => /\ pokemon1.current_hp \in 0..pokemon1.stats.hp
                       /\ pokemon2.current_hp \in 0..pokemon2.stats.hp)
    /\ [][ (in_battle /\ battle_log' # battle_log)
             => LET e == battle_log'[Len(battle_log')]
                    d == IF pokemon1' # pokemon1 THEN 1 ELSE 2
                    before == IF d = 1 THEN pokemon1.current_hp ELSE pokemon2.current_hp
                    after == IF d = 1 THEN pokemon1'.current_hp ELSE pokemon2'.current_hp
                IN /\ after = max(0, before - e.damage_dealt)
                   /\ after >= 0
                   /\ e.defender_hp_remaining = after
                   /\ e.defender_fainted <=> (after = 0) ]_vars

\* C9 witness: a move whose damage exceeds the HP the defender had left, so
\* that the clamp at 0 acted.
C9_Overkill ==
    /\ battle_returned
    /\ Len(battle_log) >= 3
    /\ last_entry.defender_fainted
    /\ last_entry.defender_hp_remaining = 0
    /\ last_entry.damage_dealt > battle_log[Len(battle_log) - 2].defender_hp_remaining

-----------------------------------------------------------------------------
(* Claims about simulate_battle_turn, checked under SpecTurn *)

\* the HP a defender snapshot stands at
hp_of(d) == get(d, "current_hp", d.stats.hp)

has_clause(line, part, what) ==
    \E i \in 1..Len(line) : line[i].part = part /\ line[i].what = what

has_part(line, part) == \E i \in 1..Len(line) : line[i].part = part

\* C5: a call of simulate_battle_turn whose move has combined effectiveness 0
\* against the defender leaves the defender's current_hp unchanged, reports
\* damage_dealt 0, and renders a line with the no-effect indicator and
\* without the "It dealt ... damage!" clause.
C5_NoEffectMoveLeavesHp ==
    [][ (/\ attacker_data # NoPokemon
         /\ "move_used" \in DOMAIN turn_result'
         /\ calculate_type_effectiveness(type_effectiveness,
                move_of(turn_result'.move_used).type, defender_data.types) = 0)
            => /\ hp_of(defender_data') = hp_of(defender_data)
               /\ turn_result'.damage_dealt = 0
               /\ has_clause(turn_result'.battle_log, "effectiveness",
                             "It has no effect...")
               /\ ~has_part(turn_result'.battle_log, "dealt") ]_vars

\* the defense stat a call with this move name selects from the defender
turn_defense_stat(move_name) ==
    IF move_of(move_name).category = "Physical"
    THEN defender_data.stats.defense
    ELSE defender_data.stats.sp_defense

\* C11: a call of simulate_battle_turn on a defender whose selected defense
\* stat (defense for a Physical move, sp_defense for a Special one) is zero
\* or negative is rejected: no damage value comes back, and the defender's
\* current_hp is what it was.  Every call that does return a damage value
\* therefore selected a positive defense stat.
C11_NonPositiveDefenseRejected ==
    [][ attacker_data # NoPokemon
            => /\ "error" \in DOMAIN turn_result'
                      => hp_of(defender_data') = hp_of(defender_data)
               /\ "move_used" \in DOMAIN turn_result'
                      => turn_defense_stat(turn_result'.move_used) > 0 ]_vars

-----------------------------------------------------------------------------
(* Claims about failed lookups, checked under Spec *)

\* the lookup of this side's name failed
lookup_failed(p) == "error" \in DOMAIN p

-----------------------------------------------------------------------------
(* Claims about initialize_pokemon_for_battle, checked under SpecTurn *)

\* the snapshot came from initialize_pokemon_for_battle
initialised(p) == "moves" \in DOMAIN p

\* the type a default move is granted for ("" for the move every combatant has)
granting_type(m) ==
    CASE m = "Ember" -> "Fire"
      [] m = "Water Gun" -> "Water"
      [] m = "Thundershock" -> "Electric"
      [] OTHER -> ""

\* the move list the claim describes for these types
moves_as_claimed(types) ==
    SelectSeq(<<"Tackle", "Ember", "Water Gun", "Thundershock">>,
              LAMBDA m : \/ granting_type(m) = ""
                         \/ \E i \in 1..Len(types) : types[i] = granting_type(m))

\* C13: initialize_pokemon_for_battle(name), for every name that resolves,
\* yields a combatant with current_hp equal to stats.hp and with the move
\* list: Tackle first, then Ember iff Fire is among its types, then Water Gun
\* iff Water is, then Thundershock iff Electric is, in that order and without
\* duplicates (1 to 3 moves for a combatant of one or two types).
C13_InitialisedCombatant ==
    /\ \A p \in {attacker_data, defender_data} :
          initialised(p)
              => /\ p.moves = moves_as_claimed(p.types)
                 /\ Len(p.moves) \in 1..3
                 /\ \A i, j \in 1..Len(p.moves) : p.moves[i] = p.moves[j] => i = j
    /\ initialised(attacker_data) => attacker_data.current_hp = attacker_data.stats.hp
    /\ (initialised(defender_data) /\ turn_result = NoResult)
          => defender_data.current_hp = defender_data.stats.hp

\* a Fire / Water combatant has just been initialised with its three moves
C13_ThreeMoves ==
    /\ initialised(attacker_data)
    /\ attacker_data.types = <<"Fire", "Water">>
    /\ attacker_data.moves = <<"Tackle", "Ember", "Water Gun">>
    /\ attacker_data.current_hp = attacker_data.stats.hp
    /\ turn_result = NoResult

-----------------------------------------------------------------------------
(* Claims about the effectiveness message, checked under SpecCalc *)

\* C14: the message calculate_damage returns depends only on the combined
\* effectiveness eff: "It's super effective!" when eff > 1.5 (2 or 4),
\* "It's not very effective..." when 0 < eff < 0.5 (0.25), "It has no
\* effect..." when eff = 0, and no message otherwise (eff = 0.5 and eff = 1).
C14_TagFollowsEffectiveness ==
    (calc_called /\ ~calc_result.raised)
        => calc_result.effectiveness_msg =
              (CASE 2 * calc_eff > 3 * One -> "It's super effective!"
                 [] calc_eff = 0 -> "It has no effect..."
                 [] calc_eff > 0 /\ 2 * calc_eff < One -> "It's not very effective..."
                 [] OTHER -> "")

-----------------------------------------------------------------------------
(* Claims about calculate_type_effectiveness, checked under SpecCalc *)

eff_called == eff_args # NoResult

\* the multiplier the chart literal gives one pair: its entry, 1 when the
\* pair is not listed or the attacking type has no row
table_entry(attack_type, defend_type) ==
    IF /\ attack_type \in DOMAIN load_type_effectiveness
       /\ defend_type \in DOMAIN load_type_effectiveness[attack_type]
    THEN load_type_effectiveness[attack_type][defend_type]
    ELSE One

\* the product of the entries over a list of at most two types, in quarters
product_of_entries(attack_type, defend_types) ==
    CASE Len(defend_types) = 0 -> One
      [] Len(defend_types) = 1 -> table_entry(attack_type, defend_types[1])
      [] Len(defend_types) = 2 ->
             (table_entry(attack_type, defend_types[1])
                  * table_entry(attack_type, defend_types[2])) \div One

\* C15: calculate_type_effectiveness(attack type, defender types) is the
\* product over every defender type t of the chart's entry for (attack type,
\* t); an entry is one of 0, 0.5, 1, 2 and is 1 for every pair the chart does
\* not list, also when the attack type has no row.  For a defender of one or
\* two types the result is one of 0, 0.25, 0.5, 1, 2, 4.
C15_ProductOfEntries ==
    /\ \A a \in DOMAIN load_type_effectiveness :
          \A t \in DOMAIN load_type_effectiveness[a] :
              load_type_effectiveness[a][t] \in {Zero, Half, One, Double}
    /\ eff_called
          => /\ eff_result = product_of_entries(eff_args.move_type,
                                                eff_args.defender_types)
             /\ Len(eff_args.defender_types) \in 1..2
                    => eff_result \in {0, One \div 4, Half, One, Double, 4 * One}

\* a lookup against a two-type defender both of whose entries are listed
\* and differ from 1: Ground against Rock / Steel is 2 * 2 = 4
C15_BothEntriesCount ==
    /\ eff_called
    /\ Len(eff_args.defender_types) = 2
    /\ table_entry(eff_args.move_type, eff_args.defender_types[1]) = Double
    /\ table_entry(eff_args.move_type, eff_args.defender_types[2]) = Double
    /\ eff_result = 4 * One

-----------------------------------------------------------------------------
(* Claims about the chart as a field of the engine, checked under Spec *)

\* C16: the type chart is read-only after construction.  No step of
\* simulate_battle (its initialisations, its move applications with their
\* damage computations and lookups, its return) changes an entry of
\* self.type_effectiveness, and every lookup gives the same multiplier
\* after the step as before it.
C16_ChartReadOnly ==
    [][ /\ type_effectiveness' = type_effectiveness
        /\ \A mt \in EffMoveTypes, t \in EffDefenderTypeNames :
              calculate_type_effectiveness(type_effectiveness', mt, <<t>>)
                  = calculate_type_effectiveness(type_effectiveness, mt, <<t>>) ]_vars

\* a battle has run its moves, among them one whose pair the chart does not
\* list (Tackle against Ground), and the chart is the one __init__ built
C16_ChartAfterBattle ==
    /\ battle_returned
    /\ Len(battle_log) >= 2
    /\ \E i \in 1..Len(battle_log) :
          /\ battle_log[i].move_used = "Tackle"
          /\ battle_log[i].defender = "Sandshrew"
    /\ type_effectiveness = load_type_effectiveness

-----------------------------------------------------------------------------
(* Claims about the rendered log line, checked under SpecTurn *)

\* a direct call has returned a turn result
turn_returned == "battle_log" \in DOMAIN turn_result

\* C18: the log line of a move is "<attacker> used <move>!", followed by the
\* effectiveness clause exactly when (damage = 0 and the message is the
\* no-effect one) or (damage > 0 and there is a message), followed by
\* " It dealt <damage> damage!" exactly when damage > 0, followed by
\* " <defender> fainted!" exactly when the defender's current_hp is 0 after
\* the move; nothing else is appended.
C18_LogLineTemplate ==
    turn_returned =>
        LET r == turn_result
            shown == \/ r.damage_dealt = 0
                        /\ r.effectiveness_message = "It has no effect..."
                     \/ r.damage_dealt > 0 /\ r.effectiveness_message # ""
        IN r.battle_log =
               <<used_clause(r.attacker, r.move_used)>>
               \o (IF shown
                   THEN <<effectiveness_clause(r.effectiveness_message)>> ELSE <<>>)
               \o (IF r.damage_dealt > 0
                   THEN <<dealt_clause(r.damage_dealt)>> ELSE <<>>)
               \o (IF defender_data.current_hp = 0
                   THEN <<fainted_clause(r.defender)>> ELSE <<>>)

\* a line with all four clauses: a super effective move that made the
\* defender faint
C18_FourClauses ==
    /\ turn_returned
    /\ Len(turn_result.battle_log) = 4
    /\ turn_result.effectiveness_message = "It's super effective!"
    /\ defender_data.current_hp = 0

-----------------------------------------------------------------------------
(* Claims about termination, checked under FairSpec *)

\* C19 as stated: for every num_turns and every pair of resolvable
\* combatants, simulate_battle returns after applying at most 2 * num_turns
\* moves.
C19_AtMostTwoNMoves ==
    battle_returned => Len(result.battle_log) <= 2 * num_turns

\* C19, amended: for every num_turns and every pair of resolvable combatants,
\* simulate_battle terminates and returns a result, after applying at most
\* 2 * max(num_turns, 0) moves (at most two per turn); the bound holds at
\* every point of the run, so termination does not wait for a faint.
C19_TerminatesWithinTwoNOrZeroMoves ==
    /\ [](in_battle => Len(battle_log) <= 2 * max(num_turns, 0))
    /\ [](battle_returned => result.battle_log = battle_log)
    /\ (in_battle ~> battle_returned)

\* the battle returned at the turn limit after 2 * num_turns moves, none of
\* which made a combatant faint
C19_ReturnedWithoutFaint ==
    /\ battle_returned
    /\ num_turns >= 1
    /\ Len(result.battle_log) = 2 * num_turns
    /\ \A i \in 1..Len(result.battle_log) : ~result.battle_log[i].defender_fainted

-----------------------------------------------------------------------------
(* Claims about the survivors, checked under Spec *)

\* the two summaries of the returned dict
summaries == {result.pokemon1, result.pokemon2}

\* C20: in no reachable state of a battle are both combatants at current_hp
\* 0; the reported winner is one of the two combatants and stands at
\* current_hp > 0 in the returned summary.
C20_WinnerStands ==
    /\ in_battle => ~(pokemon1.current_hp <= 0 /\ pokemon2.current_hp <= 0)
    /\ battle_returned
          => /\ result.pokemon1.ending_hp = pokemon1.current_hp
             /\ result.pokemon2.ending_hp = pokemon2.current_hp
             /\ \E w \in summaries : w.name = result.winner /\ w.ending_hp > 0
             /\ result.pokemon1.name # result.pokemon2.name
                   => \A w \in summaries : w.name = result.winner => w.ending_hp > 0

\* the second-named fainted and the first-named, of another name, is the
\* winner with HP left
C20_LoserDown ==
    /\ battle_returned
    /\ result.pokemon2.ending_hp = 0
    /\ result.pokemon1.name # result.pokemon2.name
    /\ result.winner = result.pokemon1.name
    /\ result.pokemon1.ending_hp > 0

-----------------------------------------------------------------------------
(* Two simulate_battle calls on one engine, interleaved at move applications *)

\* each concurrent call runs at most MaxThreadTurns turns
MaxThreadTurns == 1

\* the names the concurrent calls are asked for
ThreadNames == {"Gastly", "pikachu", "Missingno"}

\* the draw of random.uniform the concurrent calls take: this specification
\* varies the names, the moves chosen and the interleaving
ThreadRnd == {100}

\* a slip: the data provider keeps the dict it built for a name and hands
\* the same object out again; initialising it resets what it holds
new_object_cached(h, obj) ==
    IF \E i \in 1..Len(h) : h[i].name = obj.name
    THEN LET i == CHOOSE j \in 1..Len(h) : h[j].name = obj.name
         IN [heap |-> [h EXCEPT ![i] = obj], ref |-> i]
    ELSE [heap |-> Append(h, obj), ref |-> Len(h) + 1]

\* get_pokemon_info returns a dict literal: a new object on every call, which
\* initialize_pokemon_for_battle completes and returns
new_object(h, obj) == [heap |-> Append(h, obj), ref |-> Len(h) + 1]

\* the references first_pokemon and second_pokemon of call b
thread_first(b) ==
    IF battles[b].first_pokemon = 1 THEN battles[b].pokemon1 ELSE battles[b].pokemon2
thread_second(b) ==
    IF battles[b].first_pokemon = 1 THEN battles[b].pokemon2 ELSE battles[b].pokemon1

\* the while condition of call b
thread_loop_condition(b) ==
    /\ battles[b].current_turn <= battles[b].num_turns
    /\ heap[battles[b].pokemon1].current_hp > 0
    /\ heap[battles[b].pokemon2].current_hp > 0

\* call b starts: both combatants are initialised, each a new object
thread_begin(b, pokemon1_name, pokemon2_name, n) ==
    LET p1 == initialize_pokemon_for_battle(pokemon1_name)
        p2 == initialize_pokemon_for_battle(pokemon2_name)
        names == <<pokemon1_name, pokemon2_name>>
    IN /\ battles[b].pc = "idle"
       /\ IF "error" \in DOMAIN p1 \/ "error" \in DOMAIN p2
          THEN /\ battles' = [battles EXCEPT ![b] =
                     [idle_call EXCEPT !.pc = "done", !.num_turns = n,
                                       !.names = names,
                                       !.result = error_result(p1, p2)]]
               /\ UNCHANGED heap
          ELSE \E a1 \in {new_object(heap, p1)} :
               \E a2 \in {new_object(a1.heap, p2)} :
                  /\ heap' = a2.heap
                  /\ battles' = [battles EXCEPT ![b] =
                        [idle_call EXCEPT !.pc = "loop", !.num_turns = n,
                                          !.names = names,
                                          !.pokemon1 = a1.ref,
                                          !.pokemon2 = a2.ref,
                                          !.first_pokemon = initiative(p1, p2),
                                          !.current_turn = 1]]
       /\ UNCHANGED <<type_effectiveness, battle_vars, turn_vars, calc_vars>>

\* call b applies its first Pokemon's move; draws records the move chosen
\* and the random factor drawn
thread_first_move(b, move_to_use, rnd) ==
    /\ battles[b].pc = "loop"
    /\ thread_loop_condition(b)
    /\ in_list(move_to_use, heap[thread_first(b)].moves)
    /\ type_effectiveness' = chart_after_lookup(type_effectiveness,
                                  move_of(move_to_use).type,
                                  heap[thread_second(b)].types)
    /\ \E t \in {simulate_battle_turn(type_effectiveness, heap[thread_first(b)],
                                       heap[thread_second(b)], move_to_use, rnd)} :
          IF t.raised
          THEN battles' = [battles EXCEPT ![b].pc = "raised"] /\ UNCHANGED heap
          ELSE /\ heap' = [heap EXCEPT ![thread_second(b)] = t.defender]
               /\ battles' = [battles EXCEPT
                     ![b].battle_log = Append(@, t.ret),
                     ![b].draws = Append(@, [move |-> move_to_use, rnd |-> rnd]),
                     ![b].pc = after_first_move(t.defender)]
    /\ UNCHANGED <<battle_vars, turn_vars, calc_vars>>

\* call b applies its second Pokemon's move, then current_turn += 1
thread_second_move(b, move_to_use, rnd) ==
    /\ battles[b].pc = "second"
    /\ in_list(move_to_use, heap[thread_second(b)].moves)
    /\ type_effectiveness' = chart_after_lookup(type_effectiveness,
                                  move_of(move_to_use).type,
                                  heap[thread_first(b)].types)
    /\ \E t \in {simulate_battle_turn(type_effectiveness, heap[thread_second(b)],
                                       heap[thread_first(b)], move_to_use, rnd)} :
          IF t.raised
          THEN battles' = [battles EXCEPT ![b].pc = "raised"] /\ UNCHANGED heap
          ELSE /\ heap' = [heap EXCEPT ![thread_first(b)] = t.defender]
               /\ battles' = [battles EXCEPT
                     ![b].battle_log = Append(@, t.ret),
                     ![b].draws = Append(@, [move |-> move_to_use, rnd |-> rnd]),
                     ![b].current_turn = @ + 1,
                     ![b].pc = "loop"]
    /\ UNCHANGED <<battle_vars, turn_vars, calc_vars>>

\* call b leaves its loop and returns the outcome
thread_return(b) ==
    /\ \/ battles[b].pc = "loop" /\ ~thread_loop_condition(b)
       \/ battles[b].pc = "break"
    /\ battles' = [battles EXCEPT
          ![b].result = battle_result(heap[battles[b].pokemon1],
                                      heap[battles[b].pokemon2],
                                      battles[b].current_turn,
                                      battles[b].battle_log),
          ![b].pc = "done"]
    /\ UNCHANGED <<type_effectiveness, heap, battle_vars, turn_vars, calc_vars>>

NextThreads ==
    \E b \in Threads :
        \/ \E n1 \in ThreadNames, n2 \in ThreadNames, n \in 0..MaxThreadTurns :
               thread_begin(b, n1, n2, n)
        \/ \E m \in {"Tackle", "Thundershock"}, r \in ThreadRnd :
               thread_first_move(b, m, r)
        \/ \E m \in {"Tackle", "Thundershock"}, r \in ThreadRnd :
               thread_second_move(b, m, r)
        \/ thread_return(b)

SpecThreads == Init /\ [][NextThreads]_vars

-----------------------------------------------------------------------------
(* Claims about concurrent calls, checked under SpecThreads *)

\* the loop of simulate_battle run on its own two records p1 and p2, taking
\* its moves and random factors from draws in order
RECURSIVE run_loop(_, _, _, _, _, _, _, _)
run_loop(chart, p1, p2, first_is, turn, n, log, draws) ==
    LET fst == IF first_is = 1 THEN p1 ELSE p2
        snd == IF first_is = 1 THEN p2 ELSE p1
    IN IF ~(turn <= n /\ p1.current_hp > 0 /\ p2.current_hp > 0)
       THEN battle_result(p1, p2, turn, log)
       ELSE LET t1 == simulate_battle_turn(chart, fst, snd,
                                           draws[1].move, draws[1].rnd)
                snd1 == t1.defender
                log1 == Append(log, t1.ret)
            IN IF after_first_move(snd1) = "break"
               THEN IF first_is = 1
                    THEN battle_result(p1, snd1, turn, log1)
                    ELSE battle_result(snd1, p2, turn, log1)
               ELSE LET t2 == simulate_battle_turn(chart, snd1, fst,
                                                   draws[2].move, draws[2].rnd)
                        fst1 == t2.defender
                        log2 == Append(log1, t2.ret)
                        rest == SubSeq(draws, 3, Len(draws))
                    IN IF first_is = 1
                       THEN run_loop(chart, fst1, snd1, first_is, turn + 1, n,
                                     log2, rest)
                       ELSE run_loop(chart, snd1, fst1, first_is, turn + 1, n,
                                     log2, rest)

\* simulate_battle(names[1], names[2], n) run alone with these draws
run_alone(chart, names, n, draws) ==
    LET p1 == initialize_pokemon_for_battle(names[1])
        p2 == initialize_pokemon_for_battle(names[2])
    IN IF "error" \in DOMAIN p1 \/ "error" \in DOMAIN p2
       THEN error_result(p1, p2)
       ELSE run_loop(chart, p1, p2, initiative(p1, p2), 1, n, <<>>, draws)

\* call b has two combatant records
thread_started(b) == battles[b].pokemon1 # 0

\* the records call b refers to
thread_refs(b) ==
    IF thread_started(b) THEN {battles[b].pokemon1, battles[b].pokemon2} ELSE {}

\* C17: two simulate_battle calls on the same engine whose move
\* applications interleave do not affect each other.  Each call has its own
\* pair of combatant records, also when both calls name the same creature
\* and when one call names the same creature on both sides; no step of one
\* call changes the locals (the log, the turn counter, the initiative) or a
\* combatant record (current_hp, moves) of the other; and each call returns
\* what simulate_battle returns when run alone with the same draws.
C17_CallsDoNotInterfere ==
    /\ [](\A b \in Threads :
             thread_started(b) => battles[b].pokemon1 # battles[b].pokemon2)
    /\ [](\A b, o \in Threads : b # o => thread_refs(b) \cap thread_refs(o) = {})
    /\ [][ \A b, o \in Threads :
              (b # o /\ battles'[b] # battles[b])
                  => /\ battles'[o] = battles[o]
                     /\ \A ref \in thread_refs(o) : heap'[ref] = heap[ref] ]_vars
    /\ [](\A b \in Threads :
             battles[b].pc = "done"
                 => battles[b].result =
                        run_alone(type_effectiveness, battles[b].names,
                                  battles[b].num_turns, battles[b].draws))

\* both calls name Gastly on both sides and both stand between their first
\* and their second move: their move applications interleave
C17_BothMidTurn ==
    /\ \A b \in Threads :
          /\ battles[b].names = <<"Gastly", "Gastly">>
          /\ battles[b].pc = "second"
          /\ Len(battles[b].battle_log) = 1
    /\ Cardinality(thread_refs(1) \cup thread_refs(2)) = 4

-----------------------------------------------------------------------------
(* Claims about the log and the turn count, checked under Spec *)

\* the attacker and the defender the i-th entry of the log must name: the
\* first mover attacks in the odd entries, the second mover in the even ones
mover_of(i) == IF i % 2 = 1 THEN first ELSE second
target_of(i) == IF i % 2 = 1 THEN second ELSE first

\* C21: in every returned result the log and the turn count agree.  The log
\* holds the move applications in the order they happened (a move appends
\* its entry and nothing else touches the log), the attackers alternate
\* strictly, starting with the first mover, and the log length is
\* 2 * num_turns_simulated or 2 * num_turns_simulated + 1, the odd length
\* exactly when the last entry is the first mover's move and it made the
\* second mover faint.
C21_LogAgreesWithTurnCount ==
    /\ [][ (in_battle /\ battle_log' # battle_log)
              => /\ Len(battle_log') = Len(battle_log) + 1
                 /\ SubSeq(battle_log', 1, Len(battle_log)) = battle_log
                 /\ battle_log'[Len(battle_log')].defender_hp_remaining
                        = (IF Len(battle_log') % 2 = 1
                           THEN second'.current_hp ELSE first'.current_hp) ]_vars
    /\ [](battle_returned
            => /\ result.battle_log = battle_log
               /\ \A i \in 1..Len(battle_log) :
                     /\ battle_log[i].attacker = mover_of(i).name
                     /\ battle_log[i].defender = target_of(i).name
               /\ Len(battle_log) \in {2 * result.num_turns_simulated,
                                       2 * result.num_turns_simulated + 1}
               /\ (Len(battle_log) = 2 * result.num_turns_simulated + 1)
                     <=> /\ Len(battle_log) > 0
                         /\ last_entry.attacker = first.name
                         /\ last_entry.defender = second.name
                         /\ last_entry.defender_fainted
                         /\ second.current_hp <= 0)

\* a battle cut short in its second turn: three entries, one turn counted,
\* the second mover fainted on the first mover's move
C21_OddLog ==
    /\ battle_returned
    /\ Len(result.battle_log) = 3
    /\ result.num_turns_simulated = 1
    /\ second.current_hp = 0
    /\ first.name # second.name
    /\ result.battle_log[3].attacker = first.name
    /\ result.battle_log[3].defender_fainted

-----------------------------------------------------------------------------
(* Claims about a turn limit of zero or less, checked under Spec *)

\* C22: simulate_battle with num_turns <= 0 and two names that resolve
\* applies no move: the log stays empty at every point of the call, and the
\* call returns an empty log, num_turns_simulated 0, both ending_hp equal to
\* starting_hp, and the first-named combatant as winner (the two HP shares
\* tie at 1), whatever the speeds and stats of the two are.
C22_NoTurnsNoMoves ==
    (in_battle /\ num_turns <= 0)
        => /\ battle_log = <<>>
           /\ pc # "second"
           /\ pokemon1.current_hp = pokemon1.stats.hp
           /\ pokemon2.current_hp = pokemon2.stats.hp
           /\ battle_returned
                 => /\ result.battle_log = <<>>
                    /\ result.num_turns_simulated = 0
                    /\ result.pokemon1.ending_hp = result.pokemon1.starting_hp
                    /\ result.pokemon2.ending_hp = result.pokemon2.starting_hp
                    /\ result.winner = result.pokemon1.name

\* a call with a negative turn limit has returned; the second-named
\* combatant, of another name, is the faster one and the first-named wins
C22_SlowerFirstNamedWins ==
    /\ battle_returned
    /\ num_turns < 0
    /\ pokemon2.stats.speed > pokemon1.stats.speed
    /\ first_pokemon = 2
    /\ pokemon1.name # pokemon2.name
    /\ result.winner = pokemon1.name
    /\ result.battle_log = <<>>

=============================================================================
